---- MODULE Spec2Model ----
(***************************************************************************)
(* Model of arrow-udf-python's Runtime (src/arrow-udf-python/src/lib.rs):  *)
(* Runtime::new, Runtime::add_function, Runtime::call and Drop for Runtime *)
(* run by host threads against Runtime values, each Runtime owning one     *)
(* sub-interpreter and a name-keyed map of Function.                       *)
(*                                                                         *)
(* The modules `interpreter` (SubInterpreter) and `pyarrow` (get_pyobject, *)
(* build_array) are declared at lib.rs:25-26; their behaviour is taken     *)
(* from the written specification (sections 4.1, 4.2 and 4.4).             *)
(***************************************************************************)
EXTENDS Integers, Sequences, FiniteSets, TLC

\* ------------------------------------------------------------------ bounds
MaxRows == 2        \* rows of an input batch: 0..MaxRows

\* ------------------------------------------------------------ value domains
Threads  == {"t1", "t2"}
Runtimes == {"A", "B"}
Names    == {"f", "g"}
\* Column counts of input batches: one (test_fib) and two (test_gcd).
Widths   == {1, 2}
NoThread == "nobody"
NoRuntime == "-"
NoName   == "-"

\* Arrow side: a slot of a nullable column is a validity bit and a value.
NULL     == [valid |-> FALSE, v |-> 0]
Some(n)  == [valid |-> TRUE, v |-> n]
Elements == {NULL, Some(1), Some(2)}

\* Guest side: Python objects.
PyNone   == [py |-> "None", v |-> 0]
PyInt(n) == [py |-> "int", v |-> n]
PyStr    == [py |-> "str", v |-> 0]

\* lib.rs:121-131
CallMode == {"CalledOnNullInput", "ReturnNullOnNullInput"}
\* declared return types used by the model (lib.rs:37, tests use Int32)
DataType == {"Int32", "Utf8"}

\* Source texts handed to add_function, named by what they define.
\*   bad_syntax   : does not compile
\*   no_symbol    : compiles, defines no attribute of the requested name
\*   not_callable : compiles, the attribute is a plain value
\*   first        : def f(*a): return a[0]
\*   count_none   : def f(*a): return number of a[k] that are None
\*   raise_on_2   : def f(*a): raises when a[0] == 2, else returns a[0]
\*   to_str       : def f(*a): return "s"
Codes == {"bad_syntax", "no_symbol", "not_callable",
          "first", "count_none", "raise_on_2", "to_str"}

NoFn == [function |-> "-", return_type |-> "-", mode |-> "-"]

\* The names the sandbox script of Runtime::new deletes (lib.rs:48-57).
Removed == {"__import__", "breakpoint", "compile", "exit", "eval", "exec",
            "help", "input", "open", "print"}
\* A fresh interpreter's builtins: the deleted ones and some that stay.
FreshBuiltins == Removed \cup {"len", "abs"}

\* The values an operation or a closure returns. Every payload is a record of
\* its own shape: () is Unit, an error [error], a callable [callable], an array
\* [array], a guest object [py, v], a batch [field, nullable, column].
Unit   == [unit |-> TRUE]
NoRet  == [status |-> "-", value |-> Unit]
Ok(v)  == [status |-> "Ok", value |-> v]
Err(e) == [status |-> "Err", value |-> [error |-> e]]

\* --------------------------------------------------------------- the state
VARIABLES
    interp,     \* interp[r]: "none" | "live" | "destroyed"  (Runtime.interpreter)
    builtins,   \* builtins[r]: the builtin names of r's interpreter
    functions,  \* functions[r][name]: Function or NoFn      (Runtime.functions)
    gil,        \* gil[r]: the thread inside with_gil of r, or NoThread
    pc,         \* pc[t]: where thread t is
    op,         \* op[t]: the operation thread t runs, "-" when idle
    rt,         \* rt[t]: the Runtime thread t operates on
    name,       \* name[t]: the `name` argument of add_function / call
    decl,       \* decl[t]: add_function's (return_type, mode, code)
    input,      \* input[t]: call's input batch, a sequence of columns
    fn,         \* fn[t]: call's `function` (borrowed) / add_function's `function`
    i,          \* i[t]: call's loop index
    row,        \* row[t]: call's `row` vector
    results,    \* results[t]: call's `results` vector
    ret,        \* ret[t]: the value of the with_gil closure, then of the operation
    invoked,    \* invoked[t]: history of guest invocations of the current call
    acquired,   \* acquired[t]: number of with_gil entries of the current operation
    before,     \* before[t]: the Runtime's functions when the operation was entered
    dropped     \* dropped[t]: the Functions the current operation has dropped, each
                \*   with whether t was inside with_gil and the interpreter's state

vars == <<interp, builtins, functions, gil, pc, op, rt, name, decl, input, fn, i,
          row, results, ret, invoked, acquired, before, dropped>>

locals == <<i, row, results>>

NoDecl == [return_type |-> "-", mode |-> "-", code |-> "-"]
NoInput == <<>>

Init ==
    /\ interp    = [r \in Runtimes |-> "none"]
    /\ builtins  = [r \in Runtimes |-> {}]
    /\ functions = [r \in Runtimes |-> [n \in Names |-> NoFn]]
    /\ gil       = [r \in Runtimes |-> NoThread]
    /\ pc        = [t \in Threads |-> "idle"]
    /\ rt        = [t \in Threads |-> NoRuntime]
    /\ name      = [t \in Threads |-> NoName]
    /\ decl      = [t \in Threads |-> NoDecl]
    /\ input     = [t \in Threads |-> NoInput]
    /\ fn        = [t \in Threads |-> NoFn]
    /\ i         = [t \in Threads |-> 0]
    /\ row       = [t \in Threads |-> <<>>]
    /\ results   = [t \in Threads |-> <<>>]
    /\ ret       = [t \in Threads |-> NoRet]
    /\ invoked   = [t \in Threads |-> <<>>]
    /\ acquired  = [t \in Threads |-> 0]
    /\ op        = [t \in Threads |-> "-"]
    /\ before    = [t \in Threads |-> [n \in Names |-> NoFn]]
    /\ dropped   = [t \in Threads |-> {}]

\* ------------------------------------------------------- borrows (Rust)
\* A thread between the entry of an operation and its return uses its Runtime.
Using(t, r) == rt[t] = r /\ pc[t] \notin {"idle", "done"}
\* `&self` (lib.rs:89): shared with other `&self` users only.
SharedBorrow(t, r) ==
    \A u \in Threads \ {t} : Using(u, r) => pc[u] \in
        {"call_enter", "call_loop", "call_row", "call_build", "call_exit"}
\* `&mut self` (lib.rs:68, lib.rs:134) and construction: no other user.
UniqueBorrow(t, r) == \A u \in Threads \ {t} : ~Using(u, r)

\* --------------------------------------------- SubInterpreter::with_gil
with_gil_enter_one_lock(t, r) ==
    /\ \A q \in Runtimes : gil[q] = NoThread
    /\ gil' = [gil EXCEPT ![r] = t]
    /\ acquired' = [acquired EXCEPT ![t] = @ + 1]

\* Entry: take the exclusive-execution right of r's interpreter.
with_gil_enter(t, r) ==
    /\ gil[r] = NoThread
    /\ gil' = [gil EXCEPT ![r] = t]
    /\ acquired' = [acquired EXCEPT ![t] = @ + 1]

with_gil_exit_on_success(t, r) ==
    /\ gil[r] = t
    /\ gil' = [gil EXCEPT ![r] = IF ret[t].status = "Ok" THEN NoThread ELSE t]

\* Exit: give it back; runs on every exit path of the closure.
with_gil_exit(t, r) ==
    /\ gil[r] = t
    /\ gil' = [gil EXCEPT ![r] = NoThread]

\* ------------------------------------------------------ pyarrow (marshaller)
\* pyarrow::get_pyobject(py, column, i): element i (0-based) of a column as a
\* guest object; a null slot becomes None.
get_pyobject(column, idx) ==
    IF column[idx + 1].valid THEN PyInt(column[idx + 1].v) ELSE PyNone

Convertible(ty, o) ==
    \/ o = PyNone
    \/ ty = "Int32" /\ o.py = "int"
    \/ ty = "Utf8" /\ o.py = "str"

FromPy(o) == IF o = PyNone THEN NULL ELSE Some(o.v)

\* pyarrow::build_array(return_type, py, results): one slot per guest value, in
\* order; None becomes a null slot; a value of another type is an error.
build_array(ty, values) ==
    IF \A k \in 1..Len(values) : Convertible(ty, values[k])
    THEN Ok([array |-> [k \in 1..Len(values) |-> FromPy(values[k])]])
    ELSE Err("TypeMismatchError")

\* ------------------------------------------------------------ guest code
\* PyModule::from_code(py, code, "", name)?.getattr(name)? (lib.rs:75-77):
\* the attribute found, whatever it is, or the Python error.
from_code_getattr(code) ==
    CASE code = "bad_syntax" -> Err("SyntaxError")
      [] code = "no_symbol"  -> Err("AttributeError")
      [] OTHER               -> Ok([callable |-> code])

NoneCount(args) == Cardinality({k \in 1..Len(args) : args[k] = PyNone})

\* function.call1(py, args) (lib.rs:108): what the guest object does when
\* called with the tuple args.
call1(callable, args) ==
    CASE callable = "first"      -> Ok(args[1])
      [] callable = "count_none" -> Ok(PyInt(NoneCount(args)))
      [] callable = "raise_on_2" -> IF args[1] = PyInt(2) THEN Err("GuestException")
                                    ELSE Ok(args[1])
      [] callable = "to_str"     -> Ok(PyStr)
      [] callable \in {"import_top", "open_in_fn"} -> Ok(PyInt(1))
      [] OTHER                   -> Err("TypeError: not callable")

\* The errors that are a PyErr: raised by the interpreter at lib.rs:75-77 or at
\* lib.rs:108, they carry the guest's exception object.
PyErrs == {"SyntaxError", "AttributeError", "ImportError", "NameError",
           "GuestException", "TypeError: not callable"}

\* Source texts that reach for a builtin the sandbox script deletes:
\*   import_top : `import os` in the module body, then def f(*a): return 1
\*   open_in_fn : def f(*a): open("x"); return 1
SandboxCodes == {"import_top", "open_in_fn"}

\* lib.rs:75  PyModule::from_code runs the module body in the interpreter, with
\* the builtins the interpreter has: a name that is gone raises.
load_unit(b, code) ==
    IF code = "import_top" /\ "__import__" \notin b
    THEN Err("ImportError")
    ELSE from_code_getattr(code)

\* lib.rs:108  call1 runs the callable with the builtins the interpreter has.
invoke(b, callable, args) ==
    IF callable = "open_in_fn" /\ "open" \notin b
    THEN Err("NameError")
    ELSE call1(callable, args)

SandboxScript_without_open == <<"__import__", "breakpoint", "compile", "exit",
                                "eval", "exec", "help", "input", "print">>

\* The sandbox script (lib.rs:48-57) is a sequence of `del` statements; it
\* stops with an AttributeError at the first name that is absent.
SandboxScript == <<"__import__", "breakpoint", "compile", "exit", "eval",
                   "exec", "help", "input", "open", "print">>

RECURSIVE run_script_skip_absent(_, _, _)
run_script_skip_absent(script, k, b) ==
    IF k > Len(script) THEN [builtins |-> b, result |-> Ok(Unit)]
    ELSE run_script_skip_absent(script, k + 1, b \ {script[k]})

RECURSIVE run_script(_, _, _)
run_script(script, k, b) ==
    IF k > Len(script) THEN [builtins |-> b, result |-> Ok(Unit)]
    ELSE IF script[k] \notin b THEN [builtins |-> b, result |-> Err("AttributeError")]
    ELSE run_script(script, k + 1, b \ {script[k]})

\* ------------------------------------------------------------- helpers
num_rows(batch)    == Len(batch[1])
num_columns(batch) == Len(batch)
is_none(o)         == o = PyNone

Goto(t, l) == pc' = [pc EXCEPT ![t] = l] /\ UNCHANGED <<op, before>>

\* Every operation starts from an idle thread; what the previous one left is gone.
Enter(t, r, o, l) ==
    /\ pc[t] = "idle"
    /\ pc' = [pc EXCEPT ![t] = l]
    /\ op' = [op EXCEPT ![t] = o]
    /\ rt' = [rt EXCEPT ![t] = r]
    /\ before' = [before EXCEPT ![t] = functions[r]]

\* The Functions that leave a map when it goes from old to new, as thread t
\* drops them: inside its with_gil scope or not, interpreter alive or not.
Drops(t, old, new) ==
    {[function |-> old[n], in_scope |-> gil[rt[t]] = t, interp |-> interp[rt[t]]] :
        n \in {m \in Names : old[m] # NoFn /\ new[m] # old[m]}}

\* ------------------------------------------------------- Runtime::new
\* lib.rs:44  SubInterpreter::new()
NewBegin(t, r) ==
    /\ interp[r] = "none"
    /\ Enter(t, r, "new", "new_enter")
    /\ interp' = [interp EXCEPT ![r] = "live"]
    /\ builtins' = [builtins EXCEPT ![r] = FreshBuiltins]
    /\ UNCHANGED <<dropped, functions, gil, name, decl, input, fn, locals, ret, invoked, acquired>>

\* lib.rs:46  interpreter.run(..): entry of its exclusive-access scope
NewEnter(t) ==
    /\ pc[t] = "new_enter"
    /\ with_gil_enter(t, rt[t])
    /\ Goto(t, "new_run")
    /\ UNCHANGED <<dropped, interp, builtins, functions, rt, name, decl, input, fn, locals,
                   ret, invoked>>

\* lib.rs:47-58  the sandbox script runs
NewRun(t) ==
    /\ pc[t] = "new_run"
    /\ LET out == run_script(SandboxScript, 1, builtins[rt[t]]) IN
        /\ builtins' = [builtins EXCEPT ![rt[t]] = out.builtins]
        /\ ret' = [ret EXCEPT ![t] = out.result]
    /\ Goto(t, "new_exit")
    /\ UNCHANGED <<dropped, interp, functions, gil, rt, name, decl, input, fn, locals,
                   invoked, acquired>>

\* lib.rs:59-63  the scope ends; `?`, then Ok(Self { interpreter, functions: new })
NewExit(t) ==
    /\ pc[t] = "new_exit"
    /\ with_gil_exit(t, rt[t])
    /\ IF ret[t].status = "Ok"
       THEN /\ functions' = [functions EXCEPT ![rt[t]] = [n \in Names |-> NoFn]]
            /\ UNCHANGED interp
       ELSE /\ interp' = [interp EXCEPT ![rt[t]] = "destroyed"]
            /\ UNCHANGED functions
    /\ Goto(t, "done")
    /\ UNCHANGED <<dropped, builtins, rt, name, decl, input, fn, locals, ret, invoked, acquired>>

\* ------------------------------------------------ Runtime::add_function
\* lib.rs:67-73  entry, `&mut self`
AddBegin(t, r, nm, ty, mode, code) ==
    /\ interp[r] = "live"
    /\ UniqueBorrow(t, r)
    /\ Enter(t, r, "add_function", "add_enter")
    /\ name' = [name EXCEPT ![t] = nm]
    /\ decl' = [decl EXCEPT ![t] = [return_type |-> ty, mode |-> mode, code |-> code]]
    /\ UNCHANGED <<dropped, interp, builtins, functions, gil, input, fn, locals, ret,
                   invoked, acquired>>

\* lib.rs:74  self.interpreter.with_gil(|py| ..
AddEnter(t) ==
    /\ pc[t] = "add_enter"
    /\ with_gil_enter(t, rt[t])
    /\ Goto(t, "add_compile")
    /\ UNCHANGED <<dropped, interp, builtins, functions, rt, name, decl, input, fn, locals,
                   ret, invoked>>

\* lib.rs:75-77  compile the unit and look the attribute up
AddCompile(t) ==
    /\ pc[t] = "add_compile"
    /\ ret' = [ret EXCEPT ![t] = load_unit(builtins[rt[t]], decl[t].code)]
    /\ Goto(t, "add_exit")
    /\ UNCHANGED <<dropped, interp, builtins, functions, gil, rt, name, decl, input, fn,
                   locals, invoked, acquired>>

AddExit_unregister_on_error(t) ==
    /\ pc[t] = "add_exit"
    /\ with_gil_exit(t, rt[t])
    /\ IF ret[t].status = "Ok"
       THEN /\ fn' = [fn EXCEPT ![t] = [function |-> ret[t].value.callable,
                                        return_type |-> decl[t].return_type,
                                        mode |-> decl[t].mode]]
            /\ Goto(t, "add_insert")
            /\ UNCHANGED functions
       ELSE /\ Goto(t, "done")
            /\ functions' = [functions EXCEPT ![rt[t]][name[t]] = NoFn]
            /\ UNCHANGED fn
    /\ UNCHANGED <<dropped, interp, builtins, rt, name, decl, input, locals, ret,
                   invoked, acquired>>

\* lib.rs:78  })?  the scope ends; an error returns from add_function here
AddExit(t) ==
    /\ pc[t] = "add_exit"
    /\ with_gil_exit(t, rt[t])
    /\ IF ret[t].status = "Ok"
       THEN /\ fn' = [fn EXCEPT ![t] = [function |-> ret[t].value.callable,
                                        return_type |-> decl[t].return_type,
                                        mode |-> decl[t].mode]]
            /\ Goto(t, "add_insert")
       ELSE /\ Goto(t, "done")
            /\ UNCHANGED fn
    /\ UNCHANGED <<dropped, interp, builtins, functions, rt, name, decl, input, locals, ret,
                   invoked, acquired>>

insert_if_absent(map, key, value) ==
    IF map[key] = NoFn THEN [map EXCEPT ![key] = value] ELSE map

\* lib.rs:84  self.functions.insert(name.to_string(), function): the entry is
\* set, and the Function it replaces, if any, is dropped by this statement.
insert(map, key, value) == [map EXCEPT ![key] = value]

\* lib.rs:79-85
AddInsert(t) ==
    /\ pc[t] = "add_insert"
    /\ functions' = [functions EXCEPT ![rt[t]] = insert(@, name[t], fn[t])]
    /\ dropped' = [dropped EXCEPT ![t] = @ \cup Drops(t, functions[rt[t]], functions'[rt[t]])]
    /\ fn' = [fn EXCEPT ![t] = NoFn]
    /\ ret' = [ret EXCEPT ![t] = Ok(Unit)]
    /\ Goto(t, "done")
    /\ UNCHANGED <<interp, builtins, gil, rt, name, decl, input, locals, invoked,
                   acquired>>

\* -------------------------------------------------------- Runtime::call
CallBegin_without_lookup_check(t, r, nm, batch) ==
    /\ interp[r] = "live"
    /\ SharedBorrow(t, r)
    /\ Enter(t, r, "call", "call_enter")
    /\ name' = [name EXCEPT ![t] = nm]
    /\ input' = [input EXCEPT ![t] = batch]
    /\ fn' = [fn EXCEPT ![t] = functions[r][nm]]
    /\ ret' = [ret EXCEPT ![t] = NoRet]
    /\ UNCHANGED <<dropped, interp, builtins, functions, gil, decl, locals, invoked, acquired>>

\* lib.rs:89-90  entry, `&self`; self.functions.get(name).context(..)?
CallBegin(t, r, nm, batch) ==
    /\ interp[r] = "live"
    /\ SharedBorrow(t, r)
    /\ Enter(t, r, "call", IF functions[r][nm] = NoFn THEN "done" ELSE "call_enter")
    /\ name' = [name EXCEPT ![t] = nm]
    /\ input' = [input EXCEPT ![t] = batch]
    /\ fn' = [fn EXCEPT ![t] = functions[r][nm]]
    /\ ret' = [ret EXCEPT ![t] = IF functions[r][nm] = NoFn
                                 THEN Err("function not found") ELSE NoRet]
    /\ UNCHANGED <<dropped, interp, builtins, functions, gil, decl, locals, invoked, acquired>>

CallEnter_without_gil(t) ==
    /\ pc[t] = "call_enter"
    /\ i' = [i EXCEPT ![t] = 0]
    /\ row' = [row EXCEPT ![t] = <<>>]
    /\ results' = [results EXCEPT ![t] = <<>>]
    /\ Goto(t, "call_loop")
    /\ UNCHANGED <<dropped, interp, builtins, functions, rt, name, decl, input, fn,
                   ret, invoked, gil, acquired>>

\* lib.rs:92-94  with_gil(|py| ..: the scope is entered, the vectors are made
CallEnter(t) ==
    /\ pc[t] = "call_enter"
    /\ with_gil_enter(t, rt[t])
    /\ i' = [i EXCEPT ![t] = 0]
    /\ row' = [row EXCEPT ![t] = <<>>]
    /\ results' = [results EXCEPT ![t] = <<>>]
    /\ Goto(t, "call_loop")
    /\ UNCHANGED <<dropped, interp, builtins, functions, rt, name, decl, input, fn, ret,
                   invoked>>

marshal_row_reversed(old, batch, idx) ==
    [k \in 1..num_columns(batch) |->
        get_pyobject(batch[num_columns(batch) + 1 - k], idx)]

\* lib.rs:96-100  row.clear(); then one guest object per column is pushed
marshal_row(old, batch, idx) ==
    LET cleared == SubSeq(old, 1, 0)
    IN  cleared \o [k \in 1..num_columns(batch) |-> get_pyobject(batch[k], idx)]

CallLoop_gil_per_row(t) ==
    /\ pc[t] = "call_loop"
    /\ acquired' = [acquired EXCEPT ![t] = IF i[t] > 0 THEN @ + 1 ELSE @]
    /\ IF i[t] < num_rows(input[t])
       THEN /\ row' = [row EXCEPT ![t] = marshal_row(@, input[t], i[t])]
            /\ Goto(t, "call_row")
       ELSE /\ Goto(t, "call_build")
            /\ UNCHANGED row
    /\ UNCHANGED <<dropped, interp, builtins, functions, gil, rt, name, decl, input, fn, i,
                   results, ret, invoked>>

\* lib.rs:95-100  loop head and the marshalling of row i
CallLoop(t) ==
    /\ pc[t] = "call_loop"
    /\ IF i[t] < num_rows(input[t])
       THEN /\ row' = [row EXCEPT ![t] = marshal_row(@, input[t], i[t])]
            /\ Goto(t, "call_row")
       ELSE /\ Goto(t, "call_build")
            /\ UNCHANGED row
    /\ UNCHANGED <<dropped, interp, builtins, functions, gil, rt, name, decl, input, fn, i,
                   results, ret, invoked, acquired>>

skip_row_if_all_none(mode, args) ==
    /\ mode = "ReturnNullOnNullInput"
    /\ \A k \in 1..Len(args) : is_none(args[k])

skip_row_any_mode(mode, args) == \E k \in 1..Len(args) : is_none(args[k])

\* lib.rs:101-102  the condition under which a row is not handed to the guest
skip_row(mode, args) ==
    /\ mode = "ReturnNullOnNullInput"
    /\ \E k \in 1..Len(args) : is_none(args[k])

push_nothing(vec, value) == vec

error_to_none(out) == IF out.status = "Err" THEN Ok(PyNone) ELSE out

\* lib.rs:108  the `?` after call1: an error leaves the closure as it is
propagate_error(out) == out

\* lib.rs:104  results.push(py.None()) for a row that is skipped
push_skipped(vec, value) == Append(vec, value)

\* lib.rs:101-109  null policy, invocation, result
CallRow(t) ==
    /\ pc[t] = "call_row"
    /\ IF skip_row(fn[t].mode, row[t])
       THEN \* results.push(py.None()); continue
            /\ results' = [results EXCEPT ![t] = push_skipped(@, PyNone)]
            /\ i' = [i EXCEPT ![t] = @ + 1]
            /\ Goto(t, "call_loop")
            /\ UNCHANGED <<row, ret, invoked>>
       ELSE \* PyTuple::new(py, row.drain(..)); function.function.call1(py, args)?
            LET args   == row[t]
                raised == invoke(builtins[rt[t]], fn[t].function, args)
                out    == propagate_error(raised)
            IN  /\ invoked' = [invoked EXCEPT ![t] =
                                 Append(@, [row |-> i[t], args |-> args, out |-> raised])]
                /\ IF out.status = "Ok"
                   THEN /\ results' = [results EXCEPT ![t] = Append(@, out.value)]
                        /\ row' = [row EXCEPT ![t] = <<>>]
                        /\ i' = [i EXCEPT ![t] = @ + 1]
                        /\ Goto(t, "call_loop")
                        /\ UNCHANGED ret
                   ELSE \* `?`: the closure returns, its vectors are dropped
                        /\ ret' = [ret EXCEPT ![t] = out]
                        /\ results' = [results EXCEPT ![t] = <<>>]
                        /\ row' = [row EXCEPT ![t] = <<>>]
                        /\ Goto(t, "call_exit")
                        /\ UNCHANGED i
    /\ UNCHANGED <<dropped, interp, builtins, functions, gil, rt, name, decl, input, fn,
                   acquired>>

\* lib.rs:111-112  build_array(&function.return_type, py, &results)?
CallBuild(t) ==
    /\ pc[t] = "call_build"
    /\ ret' = [ret EXCEPT ![t] = build_array(fn[t].return_type, results[t])]
    /\ results' = [results EXCEPT ![t] = <<>>]
    /\ row' = [row EXCEPT ![t] = <<>>]
    /\ Goto(t, "call_exit")
    /\ UNCHANGED <<dropped, interp, builtins, functions, gil, rt, name, decl, input, fn, i,
                   invoked, acquired>>

\* lib.rs:114-115  the one-column batch named after the function
record_batch(nm, array) == [field |-> nm, nullable |-> TRUE, column |-> array]

CallExit_evict_on_error(t) ==
    /\ pc[t] = "call_exit"
    /\ with_gil_exit(t, rt[t])
    /\ ret' = [ret EXCEPT ![t] = IF @.status = "Ok"
                                 THEN Ok(record_batch(name[t], @.value.array)) ELSE @]
    /\ functions' = [functions EXCEPT ![rt[t]][name[t]] =
                        IF ret[t].status = "Ok" THEN @ ELSE NoFn]
    /\ Goto(t, "done")
    /\ UNCHANGED <<dropped, interp, builtins, rt, name, decl, input, fn, locals,
                   invoked, acquired>>

CallExit_keep_gil(t) ==
    /\ pc[t] = "call_exit"
    /\ ret' = [ret EXCEPT ![t] = IF @.status = "Ok"
                                 THEN Ok(record_batch(name[t], @.value.array)) ELSE @]
    /\ Goto(t, "done")
    /\ UNCHANGED <<dropped, interp, builtins, functions, gil, rt, name, decl, input, fn,
                   locals, invoked, acquired>>

\* lib.rs:113-115  })?  the scope ends; then the output batch is made
CallExit(t) ==
    /\ pc[t] = "call_exit"
    /\ with_gil_exit(t, rt[t])
    /\ ret' = [ret EXCEPT ![t] = IF @.status = "Ok"
                                 THEN Ok(record_batch(name[t], @.value.array)) ELSE @]
    /\ Goto(t, "done")
    /\ UNCHANGED <<dropped, interp, builtins, functions, rt, name, decl, input, fn, locals,
                   invoked, acquired>>

\* ------------------------------------------------------ Drop for Runtime
\* lib.rs:134  drop(&mut self)
DropBegin(t, r) ==
    /\ interp[r] = "live"
    /\ UniqueBorrow(t, r)
    /\ Enter(t, r, "drop", "drop_enter")
    /\ UNCHANGED <<dropped, interp, builtins, functions, gil, name, decl, input, fn, locals,
                   ret, invoked, acquired>>

\* lib.rs:136  self.interpreter.with_gil(|_| ..
DropEnter(t) ==
    /\ pc[t] = "drop_enter"
    /\ with_gil_enter(t, rt[t])
    /\ Goto(t, "drop_clear")
    /\ UNCHANGED <<dropped, interp, builtins, functions, rt, name, decl, input, fn, locals,
                   ret, invoked>>

clear_nothing(map) == map

\* lib.rs:136  self.functions.clear()
clear(map) == [n \in DOMAIN map |-> NoFn]

DropClear(t) ==
    /\ pc[t] = "drop_clear"
    /\ functions' = [functions EXCEPT ![rt[t]] = clear(@)]
    /\ dropped' = [dropped EXCEPT ![t] = @ \cup Drops(t, functions[rt[t]], functions'[rt[t]])]
    /\ Goto(t, "drop_exit")
    /\ UNCHANGED <<interp, builtins, gil, rt, name, decl, input, fn, locals, ret,
                   invoked, acquired>>

\* lib.rs:136  the scope ends
DropExit(t) ==
    /\ pc[t] = "drop_exit"
    /\ with_gil_exit(t, rt[t])
    /\ Goto(t, "drop_interpreter")
    /\ UNCHANGED <<dropped, interp, builtins, functions, rt, name, decl, input, fn, locals,
                   ret, invoked, acquired>>

\* lib.rs:29-32  after drop() the fields go in declaration order: first
\* `interpreter` (lib.rs:30) ...
DropInterpreter(t) ==
    /\ pc[t] = "drop_interpreter"
    /\ interp' = [interp EXCEPT ![rt[t]] = "destroyed"]
    /\ Goto(t, "drop_functions")
    /\ UNCHANGED <<dropped, builtins, functions, gil, rt, name, decl, input, fn, locals, ret,
                   invoked, acquired>>

\* ... then `functions` (lib.rs:31), with whatever it still holds
DropFunctions(t) ==
    /\ pc[t] = "drop_functions"
    /\ functions' = [functions EXCEPT ![rt[t]] = [n \in Names |-> NoFn]]
    /\ dropped' = [dropped EXCEPT ![t] = @ \cup Drops(t, functions[rt[t]], functions'[rt[t]])]
    /\ ret' = [ret EXCEPT ![t] = Ok(Unit)]
    /\ Goto(t, "done")
    /\ UNCHANGED <<interp, builtins, gil, rt, name, decl, input, fn, locals, invoked,
                   acquired>>

\* ------------------------------------------------------------ the caller
\* The operation has returned; its result and locals go out of scope.
Return(t) ==
    /\ pc[t] = "done"
    /\ pc' = [pc EXCEPT ![t] = "idle"]
    /\ op' = [op EXCEPT ![t] = "-"]
    /\ before' = [before EXCEPT ![t] = [n \in Names |-> NoFn]]
    /\ dropped' = [dropped EXCEPT ![t] = {}]
    /\ rt' = [rt EXCEPT ![t] = NoRuntime]
    /\ name' = [name EXCEPT ![t] = NoName]
    /\ decl' = [decl EXCEPT ![t] = NoDecl]
    /\ input' = [input EXCEPT ![t] = NoInput]
    /\ fn' = [fn EXCEPT ![t] = NoFn]
    /\ i' = [i EXCEPT ![t] = 0]
    /\ row' = [row EXCEPT ![t] = <<>>]
    /\ results' = [results EXCEPT ![t] = <<>>]
    /\ ret' = [ret EXCEPT ![t] = NoRet]
    /\ invoked' = [invoked EXCEPT ![t] = <<>>]
    /\ acquired' = [acquired EXCEPT ![t] = 0]
    /\ UNCHANGED <<interp, builtins, functions, gil>>

\* ------------------------------------------------------- specifications
\* The batches of c \in W columns and 0..maxr rows with slots from E.
Batches(E, W, maxr) ==
    UNION {[1..c -> [1..n -> E]] : c \in W, n \in 0..maxr}

Step(t) ==
    \/ NewEnter(t) \/ NewRun(t) \/ NewExit(t)
    \/ AddEnter(t) \/ AddCompile(t) \/ AddExit(t) \/ AddInsert(t)
    \/ CallEnter(t) \/ CallLoop(t) \/ CallRow(t) \/ CallBuild(t) \/ CallExit(t)
    \/ DropEnter(t) \/ DropClear(t) \/ DropExit(t)
    \/ DropInterpreter(t) \/ DropFunctions(t)
    \/ Return(t)

\* One step of the program with the callers' choices drawn from the given sets.
NextOver(TS, RS, NS, TYS, MS, CS, BS) ==
    \E t \in TS :
        \/ /\ pc[t] = "idle"
           /\ \/ \E r \in RS : NewBegin(t, r)
              \/ \E r \in RS, nm \in NS, ty \in TYS, m \in MS, c \in CS :
                    AddBegin(t, r, nm, ty, m, c)
              \/ \E r \in RS, nm \in NS, b \in BS : CallBegin(t, r, nm, b)
              \/ \E r \in RS : DropBegin(t, r)
        \/ Step(t)

\* Two threads, two Runtimes, small batches: the interleavings.
SmallBatches == Batches({NULL, Some(2)}, {1}, MaxRows)

Next == NextOver(Threads, Runtimes, {"f"}, {"Int32"}, CallMode,
                 {"bad_syntax", "raise_on_2"}, SmallBatches)

Spec == Init /\ [][Next]_vars

\* One thread, one Runtime, every mode and batch: the call loop.
AllBatches == Batches(Elements, Widths, MaxRows)

NextCall == NextOver({"t1"}, {"A"}, {"f"}, DataType, CallMode, Codes, AllBatches)

SpecCall == Init /\ [][NextCall]_vars

\* One thread, one Runtime, two names: the registry.
OneRowBatches == Batches({NULL, Some(1)}, {1}, 1)

NextReg == NextOver({"t1"}, {"A"}, Names, DataType, CallMode,
                    {"bad_syntax", "no_symbol", "not_callable", "first", "to_str"},
                    OneRowBatches)

SpecReg == Init /\ [][NextReg]_vars

\* One thread, one Runtime, source texts that use deleted builtins: the sandbox.
NextSandbox == NextOver({"t1"}, {"A"}, {"f"}, {"Int32"}, CallMode,
                        SandboxCodes \cup {"first"}, OneRowBatches)

SpecSandbox == Init /\ [][NextSandbox]_vars

\* Two threads, two Runtimes, a callable that returns or raises, under fair
\* scheduling: a thread that has begun an operation keeps taking its steps, and
\* a thread that waits for an interpreter that becomes free again and again
\* gets it.
LiveBatches == Batches({Some(1), Some(2)}, {1}, 1)

NextLive == NextOver(Threads, Runtimes, {"f"}, {"Int32"}, {"CalledOnNullInput"},
                     {"raise_on_2"}, LiveBatches)

Fairness == \A t \in Threads : SF_vars(Step(t))

SpecLive == Init /\ [][NextLive]_vars /\ Fairness

\* =====================================================================
\* Properties
\* =====================================================================
\* Row idx (0-based) of a batch has a null slot in some column.
HasNull(batch, idx) == \E k \in 1..num_columns(batch) : ~batch[k][idx + 1].valid

NullRows(batch)    == {idx \in 0..(num_rows(batch) - 1) : HasNull(batch, idx)}
NonNullRows(batch) == {idx \in 0..(num_rows(batch) - 1) : ~HasNull(batch, idx)}

InvokedRows(t) == {invoked[t][k].row : k \in 1..Len(invoked[t])}

Returned(t, o)  == op[t] = o /\ pc[t] = "done"
Succeeded(t, o) == Returned(t, o) /\ ret[t].status = "Ok"
Failed(t, o)    == Returned(t, o) /\ ret[t].status = "Err"

NoneRaised(t) == \A k \in 1..Len(invoked[t]) : invoked[t][k].out.status = "Ok"

\* C1: under ReturnNullOnNullInput the callable is never invoked for a row with
\* a null argument; once the call has returned without a guest exception the
\* callable has been invoked exactly once per row without a null argument; and
\* when the call has succeeded every row with a null argument is a null slot of
\* the output.
C1_NullRowsSkipped ==
    \A t \in Threads :
        (op[t] = "call" /\ fn[t].mode = "ReturnNullOnNullInput") =>
            /\ InvokedRows(t) \cap NullRows(input[t]) = {}
            /\ (Returned(t, "call") /\ NoneRaised(t)) =>
                /\ Len(invoked[t]) = Cardinality(NonNullRows(input[t]))
                /\ InvokedRows(t) = NonNullRows(input[t])
            /\ Succeeded(t, "call") =>
                \A idx \in NullRows(input[t]) : ret[t].value.column[idx + 1] = NULL

\* A two-column call has succeeded with one row skipped for a single null
\* argument and another row handed to the guest.
C1_Witness ==
    \E t \in Threads :
        /\ Succeeded(t, "call")
        /\ fn[t].mode = "ReturnNullOnNullInput"
        /\ num_columns(input[t]) = 2
        /\ \E idx \in NullRows(input[t]) :
               input[t][1][idx + 1].valid /\ ~input[t][2][idx + 1].valid
        /\ Len(invoked[t]) = 1

\* The arguments the guest is to see for row idx: one per column, in column order.
ArgsOf(batch, idx) == [k \in 1..num_columns(batch) |-> get_pyobject(batch[k], idx)]

\* C2: under CalledOnNullInput a successful call has invoked the callable
\* exactly once for every row, rows with null arguments included, in row order,
\* and each output slot is the conversion of what the callable returned for
\* that row.
C2_CalledOnEveryRow ==
    \A t \in Threads :
        (Succeeded(t, "call") /\ fn[t].mode = "CalledOnNullInput") =>
            /\ Len(invoked[t]) = num_rows(input[t])
            /\ \A k \in 1..Len(invoked[t]) :
                /\ invoked[t][k].row = k - 1
                /\ invoked[t][k].out.status = "Ok"
                /\ ret[t].value.column[k] = FromPy(invoked[t][k].out.value)
                /\ invoked[t][k].out = call1(fn[t].function, ArgsOf(input[t], k - 1))

\* A CalledOnNullInput call has succeeded on a batch with an all-null row and
\* the callable's answer for that row, not a null, is in the output.
C2_Witness ==
    \E t \in Threads :
        /\ Succeeded(t, "call")
        /\ fn[t].mode = "CalledOnNullInput"
        /\ num_rows(input[t]) = 2
        /\ \E idx \in NullRows(input[t]) :
            /\ \A k \in 1..num_columns(input[t]) : ~input[t][k][idx + 1].valid
            /\ ret[t].value.column[idx + 1] # NULL

\* C3: once an invocation has raised, it is the last invocation of the call,
\* the closure has been left with that error and without its results, and the
\* call returns the error: no output batch, no null in place of the row.
C3_RaiseAbortsBatch ==
    \A t \in Threads : \A k \in 1..Len(invoked[t]) :
        invoked[t][k].out.status = "Err" =>
            /\ k = Len(invoked[t])
            /\ pc[t] \in {"call_exit", "done"}
            /\ ret[t] = invoked[t][k].out
            /\ results[t] = <<>>
            /\ i[t] = invoked[t][k].row

\* The callable answered row 0 and raised on row 1 of a batch: the call has
\* returned the error.
C3_Witness ==
    \E t \in Threads :
        /\ Failed(t, "call")
        /\ Len(invoked[t]) = 2
        /\ invoked[t][1].out.status = "Ok"
        /\ invoked[t][2].out.status = "Err"
        /\ invoked[t][2].row = 1

\* The output slot the null policy and the callable give row idx.
ExpectedSlot(f, batch, idx) ==
    IF f.mode = "ReturnNullOnNullInput" /\ HasNull(batch, idx)
    THEN NULL
    ELSE FromPy(call1(f.function, ArgsOf(batch, idx)).value)

\* C4: a successful call returns a column with one slot per input row, slot
\* idx being the result of row idx, for the empty batch too and in both modes.
C4_RowCountAndOrder ==
    \A t \in Threads :
        Succeeded(t, "call") =>
            /\ Len(ret[t].value.column) = num_rows(input[t])
            /\ \A idx \in 0..(num_rows(input[t]) - 1) :
                   ret[t].value.column[idx + 1] = ExpectedSlot(fn[t], input[t], idx)

\* A successful call on two rows whose results differ, one of them skipped.
C4_Witness ==
    \E t \in Threads :
        /\ Succeeded(t, "call")
        /\ num_rows(input[t]) = 2
        /\ Len(invoked[t]) = 1
        /\ ret[t].value.column[1] # ret[t].value.column[2]

\* Thread t is between the entry and the exit of a with_gil scope.
InScope(t) == pc[t] \in {"new_run", "new_exit", "add_compile", "add_exit",
                         "call_loop", "call_row", "call_build", "call_exit",
                         "drop_clear", "drop_exit"}
\* Thread t is about to enter a with_gil scope.
AtEntry(t) == pc[t] \in {"new_enter", "add_enter", "call_enter", "drop_enter"}

\* C5: at most one thread is inside an exclusive-access scope of a given
\* Runtime's interpreter, and it is the one that holds the interpreter.
C5_OneThreadPerInstance ==
    \A t \in Threads :
        InScope(t) =>
            /\ gil[rt[t]] = t
            /\ \A u \in Threads \ {t} : ~(InScope(u) /\ rt[u] = rt[t])

\* Two calls against the same Runtime: one is in its loop, the other waits at
\* the entry of its scope.
C5_Witness ==
    \E t, u \in Threads :
        /\ t # u /\ rt[t] = rt[u]
        /\ op[t] = "call" /\ op[u] = "call"
        /\ pc[t] = "call_row" /\ pc[u] = "call_enter"

\* C6: a thread at the entry of a scope of an interpreter nobody holds can
\* enter it, whoever holds the other interpreters.
C6_PerInstanceExclusion ==
    \A t \in Threads :
        (AtEntry(t) /\ gil[rt[t]] = NoThread) =>
            ENABLED (NewEnter(t) \/ AddEnter(t) \/ CallEnter(t) \/ DropEnter(t))

\* Two threads are inside the scopes of two different interpreters at once,
\* both of them in the loop of a call.
C6_Witness ==
    \E t, u \in Threads :
        /\ rt[t] # rt[u]
        /\ pc[t] = "call_row" /\ pc[u] = "call_row"
        /\ gil[rt[t]] = t /\ gil[rt[u]] = u

Empty == [n \in Names |-> NoFn]

\* C7: a destroyed interpreter's Runtime holds no callable, neither in its
\* functions nor in an add_function under way, and every Function a teardown
\* has dropped was dropped inside the with_gil scope, the interpreter alive.
C7_ReleasedBeforeDestroy ==
    /\ \A r \in Runtimes :
           interp[r] = "destroyed" =>
               /\ functions[r] = Empty
               /\ \A t \in Threads : Using(t, r) => fn[t] = NoFn
    /\ \A t \in Threads :
           op[t] = "drop" =>
               \A d \in dropped[t] : d.in_scope /\ d.interp = "live"

\* A Runtime with two registered Functions has been torn down: both were
\* dropped by the teardown and the interpreter is destroyed.
C7_Witness ==
    \E t \in Threads :
        /\ Returned(t, "drop")
        /\ interp[rt[t]] = "destroyed"
        /\ \A n \in Names : before[t][n] # NoFn
        /\ {d.function : d \in dropped[t]} = {before[t][n] : n \in Names}

\* The Function add_function builds from its arguments (lib.rs:79-83).
Declared(t) == [function |-> decl[t].code, return_type |-> decl[t].return_type,
                mode |-> decl[t].mode]

\* C8: after a successful add_function the entry under the name is the Function
\* just declared, whatever was registered before, and the other names are as
\* they were; a call under way uses the entry registered under its name and no
\* other, for each of its invocations.
C8_ReRegistrationReplaces ==
    \A t \in Threads :
        /\ Succeeded(t, "add_function") =>
            /\ functions[rt[t]][name[t]] = Declared(t)
            /\ \A n \in Names \ {name[t]} : functions[rt[t]][n] = before[t][n]
        /\ (op[t] = "call" /\ Using(t, rt[t])) =>
            /\ fn[t] = functions[rt[t]][name[t]]
            /\ \A k \in 1..Len(invoked[t]) :
                   invoked[t][k].out =
                       call1(functions[rt[t]][name[t]].function, invoked[t][k].args)

\* An add_function has succeeded under a name that held a Function with another
\* callable, another return type and another mode.
C8_Witness ==
    \E t \in Threads :
        /\ Succeeded(t, "add_function")
        /\ before[t][name[t]] # NoFn
        /\ before[t][name[t]].function # Declared(t).function
        /\ before[t][name[t]].return_type # Declared(t).return_type
        /\ before[t][name[t]].mode # Declared(t).mode

\* C9: a failed add_function leaves the Runtime's functions as they were when
\* it was entered: nothing under the name that was not there, an earlier
\* registration under the name kept, the other names untouched.
C9_FailedAddKeepsRegistry ==
    \A t \in Threads :
        Failed(t, "add_function") => functions[rt[t]] = before[t]

\* An add_function whose named symbol is missing has failed on a Runtime that
\* had a Function under that name and one under another name.
C9_Witness ==
    \E t \in Threads :
        /\ Failed(t, "add_function")
        /\ decl[t].code = "no_symbol"
        /\ \A n \in Names : before[t][n] # NoFn
        /\ functions[rt[t]][name[t]] = before[t][name[t]]

\* C10: no Function is dropped outside a with_gil scope of its Runtime's
\* interpreter, by a re-registration or by a teardown.
C10_DroppedInScope ==
    \A t \in Threads : \A d \in dropped[t] : d.in_scope

\* C11: a call under a name that has no entry when the call is entered has
\* returned the not-found error at once: it has entered no with_gil scope,
\* holds no interpreter and has invoked nothing.
C11_NotFoundWithoutScope ==
    \A t \in Threads :
        (op[t] = "call" /\ before[t][name[t]] = NoFn) =>
            /\ pc[t] = "done"
            /\ ret[t] = Err("function not found")
            /\ acquired[t] = 0
            /\ invoked[t] = <<>>
            /\ \A r \in Runtimes : gil[r] # t

\* A call under an unregistered name has failed on a Runtime that holds a
\* Function under the other name.
C11_Witness ==
    \E t \in Threads :
        /\ Failed(t, "call")
        /\ before[t][name[t]] = NoFn
        /\ \E n \in Names : before[t][n] # NoFn

\* Thread t is where user code runs: the module body of add_function or the
\* loop of call.
RunsUserCode(t) == pc[t] \in {"add_compile", "call_loop", "call_row", "call_build"}

\* C12: where user code runs, none of the names the sandbox script deletes is
\* among the interpreter's builtins; an add_function whose module body imports
\* has failed and stored nothing, and a call whose callable opens a file has
\* failed.
C12_SandboxedBeforeUserCode ==
    \A t \in Threads :
        /\ RunsUserCode(t) => builtins[rt[t]] \cap Removed = {}
        /\ (Returned(t, "add_function") /\ decl[t].code = "import_top") =>
               ret[t].status = "Err" /\ functions[rt[t]] = before[t]
        /\ (Returned(t, "call") /\ fn[t].function = "open_in_fn"
                /\ invoked[t] # <<>>) =>
               ret[t].status = "Err"

\* A call of a callable that opens a file has invoked it once and has failed
\* with the guest's NameError.
C12_Witness ==
    \E t \in Threads :
        /\ Failed(t, "call")
        /\ fn[t].function = "open_in_fn"
        /\ Len(invoked[t]) = 1
        /\ ret[t] = Err("NameError")

\* C13: an add_function whose source binds the name to an object that is not
\* callable has failed and has stored nothing under the name.
C13_NotCallableRejected ==
    \A t \in Threads :
        (Returned(t, "add_function") /\ decl[t].code = "not_callable") =>
            /\ ret[t].status = "Err"
            /\ functions[rt[t]] = before[t]

\* C14: a thread whose add_function or call has returned, with success or with
\* an error, holds no interpreter, and a thread at the entry of a scope of the
\* Runtime it used can enter it.
C14_ReleasedOnEveryExit ==
    \A t \in Threads :
        /\ (Returned(t, "add_function") \/ Returned(t, "call")) =>
               \A r \in Runtimes : gil[r] # t
        /\ AtEntry(t) =>
               ENABLED (NewEnter(t) \/ AddEnter(t) \/ CallEnter(t) \/ DropEnter(t))

\* A call has returned a conversion error after every invocation went well,
\* and the interpreter is free.
C14_Witness ==
    \E t \in Threads :
        /\ Failed(t, "call")
        /\ ret[t] = Err("TypeMismatchError")
        /\ invoked[t] # <<>>
        /\ NoneRaised(t)
        /\ gil[rt[t]] = NoThread

\* Thread t is inside the with_gil scope of a call.
InCallScope(t) == pc[t] \in {"call_loop", "call_row", "call_build", "call_exit"}

\* C15: a call enters a scope at most once; from the first row to the building
\* of the output it holds the interpreter, having entered exactly once, and no
\* other thread runs user code on the same Runtime meanwhile; a call that
\* invoked the callable has entered exactly once.
C15_OneScopePerCall ==
    \A t \in Threads :
        op[t] = "call" =>
            /\ acquired[t] <= 1
            /\ InCallScope(t) =>
                /\ gil[rt[t]] = t
                /\ acquired[t] = 1
                /\ \A u \in Threads \ {t} : rt[u] = rt[t] => ~RunsUserCode(u)
            /\ (Returned(t, "call") /\ invoked[t] # <<>>) => acquired[t] = 1

\* A call is at its second row, the first one invoked, while another thread
\* waits to enter a call on the same Runtime.
C15_Witness ==
    \E t, u \in Threads :
        /\ t # u /\ rt[t] = rt[u]
        /\ op[t] = "call" /\ pc[t] = "call_row" /\ i[t] = 1
        /\ Len(invoked[t]) = 1
        /\ acquired[t] = 1
        /\ op[u] = "call" /\ pc[u] = "call_enter"

\* The guest objects thread t holds: the row's arguments, the per-row results,
\* and the exception object inside a PyErr it is returning.
HeldObjects(t) ==
    Len(row[t]) + Len(results[t])
        + (IF ret[t].status = "Err" /\ ret[t].value.error \in PyErrs THEN 1 ELSE 0)

\* C16: a thread whose call is outside its with_gil scope holds no guest
\* object made by the call: no argument, no result, no exception object.
C16_NothingHeldAfterScope ==
    \A t \in Threads :
        (op[t] = "call" /\ ~InCallScope(t)) => HeldObjects(t) = 0

\* r's interpreter is alive and the sandbox script of Runtime::new has run in it.
Sandboxed(r) ==
    /\ interp[r] = "live"
    /\ \A t \in Threads : (rt[t] = r /\ op[t] = "new") => pc[t] \in {"new_exit", "done"}

\* What running the sandbox script once more in r's interpreter gives.
SecondRun(r) == run_script(SandboxScript, 1, builtins[r])

\* C17 as stated: in a live, sandboxed interpreter a second run of the sandbox
\* script succeeds and leaves the builtins as they are.
C17_SecondRunSucceeds ==
    \A r \in Runtimes :
        Sandboxed(r) =>
            /\ SecondRun(r).result.status = "Ok"
            /\ SecondRun(r).builtins = builtins[r]

\* C17 amended: in a live, sandboxed interpreter a second run of the sandbox
\* script fails with the AttributeError of its first deletion and leaves the
\* builtins as they are.
C17_SecondRunFailsUnchanged ==
    \A r \in Runtimes :
        Sandboxed(r) =>
            /\ SecondRun(r).result = Err("AttributeError")
            /\ SecondRun(r).builtins = builtins[r]

\* Runtime::new has returned a Runtime whose interpreter lost every deleted
\* name and kept the others.
C17_Witness ==
    \E t \in Threads :
        /\ Succeeded(t, "new")
        /\ Sandboxed(rt[t])
        /\ builtins[rt[t]] = FreshBuiltins \ Removed
        /\ builtins[rt[t]] # {}

\* C18: every invocation of a call received one argument per input column, the
\* k-th being the guest object of column k at the invocation's row, whatever
\* happened to the row before it, and the invocations are in increasing row
\* order.
C18_ArgsPerColumnInOrder ==
    \A t \in Threads :
        op[t] = "call" =>
            \A k \in 1..Len(invoked[t]) :
                /\ invoked[t][k].row \in 0..(num_rows(input[t]) - 1)
                /\ Len(invoked[t][k].args) = num_columns(input[t])
                /\ \A c \in 1..num_columns(input[t]) :
                       invoked[t][k].args[c] =
                           get_pyobject(input[t][c], invoked[t][k].row)
                /\ k > 1 => invoked[t][k - 1].row < invoked[t][k].row

\* A two-column call under ReturnNullOnNullInput skipped row 0 for a null and
\* then invoked the callable for row 1 with two arguments that differ.
C18_Witness ==
    \E t \in Threads :
        /\ op[t] = "call"
        /\ fn[t].mode = "ReturnNullOnNullInput"
        /\ num_columns(input[t]) = 2
        /\ num_rows(input[t]) = 2
        /\ HasNull(input[t], 0)
        /\ Len(invoked[t]) = 1
        /\ invoked[t][1].row = 1
        /\ invoked[t][1].args[1] # invoked[t][1].args[2]

\* C19: from its entry to its return, with success or with an error, a call
\* leaves every entry of the Runtime's functions as it found it, and the
\* interpreter alive; the entry it looked up is the one still registered.
C19_CallKeepsRegistry ==
    \A t \in Threads :
        op[t] = "call" =>
            /\ functions[rt[t]] = before[t]
            /\ interp[rt[t]] = "live"
            /\ fn[t] = functions[rt[t]][name[t]]

\* A call has failed on its second row with a guest exception and the Function
\* it called is still registered.
C19_Witness ==
    \E t \in Threads :
        /\ Failed(t, "call")
        /\ Len(invoked[t]) = 2
        /\ ret[t] = Err("GuestException")
        /\ functions[rt[t]][name[t]] # NoFn
        /\ functions[rt[t]][name[t]] = before[t][name[t]]

====
